---------------------------- MODULE Spec2Model ----------------------------
(***************************************************************************)
(* Model of the Accenture LeetCode tracker: the CSV parser (parseCSV), the *)
(* view derivation of ProblemTable (filter by tag, sort by key/direction), *)
(* the sort-key state machine (handleSort), the tag filter (toggleTag) and *)
(* the persisted solved list (handleToggleSolved).                         *)
(*                                                                         *)
(* Strings are sequences of one-character strings, so that split, trim,    *)
(* case conversion and parseFloat are computed character by character.     *)
(* A number is a record [nan, v]: v is a decimal fixed-point integer with  *)
(* FracDigits fractional digits, and nan marks the not-a-number value.     *)
(***************************************************************************)
EXTENDS Integers, Sequences, FiniteSets, TLC

VARIABLES
    csv,               \* the source text handed to parseCSV (accentureProblemsCSV)
    loaded,            \* TRUE once the mount effect has run parseCSV
    problems,          \* App state: the record set
    solvedLinksArray,  \* App state: the persisted solved list (or a non-array value)
    sortKey,           \* ProblemTable state
    sortDirection,     \* ProblemTable state
    selectedTags,      \* ProblemTable state
    view               \* ProblemTable: the memoised sortedAndFilteredProblems

vars == <<csv, loaded, problems, solvedLinksArray, sortKey, sortDirection,
          selectedTags, view>>

-----------------------------------------------------------------------------
(* Bounds of the model *)

\* number of fractional decimal digits the fixed-point numbers keep
FracDigits == 3
\* data lines of a source text in the parser specification
MaxLines == 2
\* data lines of a source text in the application specification
MaxAppLines == 2
\* records of a record set in the view specification
MaxRecs == 3
\* length of a persisted solved list found at start-up
MaxStored == 1

-----------------------------------------------------------------------------
(* Characters and strings *)

Quote == "\""

\* what String.prototype.trim strips
WhiteSpace == {" ", "\t", "\r", "\n"}

LowerLetters == <<"a", "b", "c", "d", "e", "f", "g", "h", "i", "j", "k", "l", "m",
                  "n", "o", "p", "q", "r", "s", "t", "u", "v", "w", "x", "y", "z">>

UpperLetters == <<"A", "B", "C", "D", "E", "F", "G", "H", "I", "J", "K", "L", "M",
                  "N", "O", "P", "Q", "R", "S", "T", "U", "V", "W", "X", "Y", "Z">>

Digits == <<"0", "1", "2", "3", "4", "5", "6", "7", "8", "9">>

IndexIn(c, letters) ==
    IF \E i \in 1..Len(letters) : letters[i] = c
    THEN CHOOSE i \in 1..Len(letters) : letters[i] = c
    ELSE 0

toUpperCaseChar(c) ==
    IF IndexIn(c, LowerLetters) > 0 THEN UpperLetters[IndexIn(c, LowerLetters)] ELSE c

toLowerCaseChar(c) ==
    IF IndexIn(c, UpperLetters) > 0 THEN LowerLetters[IndexIn(c, UpperLetters)] ELSE c

toUpperCase(s) == [i \in 1..Len(s) |-> toUpperCaseChar(s[i])]

toLowerCase(s) == [i \in 1..Len(s) |-> toLowerCaseChar(s[i])]

RECURSIVE TrimStart(_)
TrimStart(s) ==
    IF s # <<>> /\ Head(s) \in WhiteSpace THEN TrimStart(Tail(s)) ELSE s

RECURSIVE TrimEnd(_)
TrimEnd(s) ==
    IF s # <<>> /\ s[Len(s)] \in WhiteSpace
    THEN TrimEnd(SubSeq(s, 1, Len(s) - 1))
    ELSE s

Trim(s) == TrimEnd(TrimStart(s))

\* String.prototype.split(sep) for a one-character separator: the pieces
\* between consecutive separators; the empty string splits into one empty
\* piece
Split(s, sep) ==
    LET P      == { i \in 1..Len(s) : s[i] = sep }
        n      == Cardinality(P)
        Nth(k) == IF k = 0 THEN 0
                  ELSE IF k = n + 1 THEN Len(s) + 1
                  ELSE CHOOSE i \in P : Cardinality({ j \in P : j <= i }) = k
    IN  [k \in 1..(n + 1) |-> SubSeq(s, Nth(k - 1) + 1, Nth(k) - 1)]

\* Array.prototype.join(sep)
RECURSIVE Join(_, _)
Join(parts, sep) ==
    IF parts = <<>> THEN <<>>
    ELSE IF Len(parts) = 1 THEN parts[1]
    ELSE parts[1] \o <<sep>> \o Join(Tail(parts), sep)

\* s.replace(/^"|"$/g, ''): a leading quote and a trailing quote are each
\* removed when present
StripQuotes(s) ==
    LET a == IF s # <<>> /\ Head(s) = Quote THEN Tail(s) ELSE s
    IN  IF a # <<>> /\ a[Len(a)] = Quote THEN SubSeq(a, 1, Len(a) - 1) ELSE a

-----------------------------------------------------------------------------
(* Numbers *)

RECURSIVE Pow10(_)
Pow10(n) == IF n = 0 THEN 1 ELSE 10 * Pow10(n - 1)

\* the fixed-point representation of 1
One == Pow10(FracDigits)

\* the number with fixed-point value v, and the not-a-number value
Num(v) == [nan |-> FALSE, v |-> v]

NaN == [nan |-> TRUE, v |-> 0]

\* the comparisons and the product of numbers: every comparison with NaN is
\* false and every product with NaN is NaN
StrictEq(a, b) == ~a.nan /\ ~b.nan /\ a.v = b.v

Less(a, b) == ~a.nan /\ ~b.nan /\ a.v < b.v

LessEq(a, b) == ~a.nan /\ ~b.nan /\ a.v <= b.v

TimesInt(a, k) == IF a.nan THEN NaN ELSE Num(a.v * k)

IsDigit(c) == IndexIn(c, Digits) > 0

DigitVal(c) == IndexIn(c, Digits) - 1

\* the length of the longest prefix of s made of digits
RECURSIVE DigitRun(_)
DigitRun(s) == IF s # <<>> /\ IsDigit(Head(s)) THEN 1 + DigitRun(Tail(s)) ELSE 0

\* the value of a run of digits as an integer
RECURSIVE IntOf(_)
IntOf(ds) == IF ds = <<>> THEN 0 ELSE 10 * IntOf(SubSeq(ds, 1, Len(ds) - 1)) + DigitVal(ds[Len(ds)])

\* the value of a run of fractional digits, in units of 1/One; digits beyond
\* FracDigits are dropped
RECURSIVE FracOf(_, _)
FracOf(ds, pos) ==
    IF ds = <<>> \/ pos > FracDigits THEN 0
    ELSE DigitVal(Head(ds)) * Pow10(FracDigits - pos) + FracOf(Tail(ds), pos + 1)

\* parseFloat: leading white space is skipped, then the longest prefix that
\* is a decimal literal (sign, digits, point, digits) is converted; with no
\* digit the result is NaN.  Exponents and Infinity are not modelled.
parseFloat(str) ==
    LET s     == TrimStart(str)
        neg   == s # <<>> /\ Head(s) = "-"
        body  == IF s # <<>> /\ Head(s) \in {"-", "+"} THEN Tail(s) ELSE s
        n     == DigitRun(body)
        rest  == SubSeq(body, n + 1, Len(body))
        dot   == rest # <<>> /\ Head(rest) = "."
        m     == IF dot THEN DigitRun(Tail(rest)) ELSE 0
        mag   == IntOf(SubSeq(body, 1, n)) * One
                 + (IF dot THEN FracOf(SubSeq(rest, 2, m + 1), 1) ELSE 0)
    IN  IF n + m = 0 THEN NaN
        ELSE IF neg THEN Num(0 - mag) ELSE Num(mag)

-----------------------------------------------------------------------------
(* The CSV parser *)

Easy == <<"E", "a", "s", "y">>

Medium == <<"M", "e", "d", "i", "u", "m">>

Hard == <<"H", "a", "r", "d">>

\* Object.values(Difficulty)
Difficulty == {Easy, Medium, Hard}

\* the minimum-field guard: a line with fewer than 5 fields is skipped
HasEnoughColumns(values) == Len(values) >= 5

\* the difficulty field upper-cased without the trim
RawDiffUntrimmed(field) == toUpperCase(field)

\* values[0].trim().toUpperCase()
RawDiff(field) == toUpperCase(Trim(field))

\* rawDiff.charAt(0).toUpperCase() + rawDiff.slice(1).toLowerCase()
TitleCase(rawDiff) ==
    IF rawDiff = <<>> THEN <<>>
    ELSE <<toUpperCaseChar(Head(rawDiff))>> \o toLowerCase(Tail(rawDiff))

\* the difficulty of a line, or <<>> when the line is to be skipped
MatchDifficulty(rawDiff) ==
    IF rawDiff = <<"E", "A", "S", "Y">> THEN Easy
    ELSE IF rawDiff = <<"M", "E", "D", "I", "U", "M">> THEN Medium
    ELSE IF rawDiff = <<"H", "A", "R", "D">> THEN Hard
    ELSE IF TitleCase(rawDiff) \in Difficulty THEN TitleCase(rawDiff)
    ELSE <<>>

\* the normalisation with < in place of <=: a rate of exactly 1 is kept
NormalizeAcceptanceBelowOne(v) == IF Less(v, Num(One)) THEN TimesInt(v, 100) ELSE v

\* a parsed rate of at most 1 is a fraction and is scaled to a percentage
NormalizeAcceptance(v) == IF LessEq(v, Num(One)) THEN TimesInt(v, 100) ELSE v

\* Array.prototype.filter(t => t.length > 0)
RECURSIVE NonEmptyOnly(_)
NonEmptyOnly(ts) ==
    IF ts = <<>> THEN <<>>
    ELSE (IF Head(ts) # <<>> THEN <<Head(ts)>> ELSE <<>>) \o NonEmptyOnly(Tail(ts))

\* the topics without the trim of the pieces
ParseTopicsUntrimmed(values) ==
    LET topicsRaw == Join(SubSeq(values, 6, Len(values)), ",")
    IN  NonEmptyOnly(Split(StripQuotes(topicsRaw), ","))

\* the topics of a line: fields 6.. rejoined, outer quotes stripped, split
\* again, each piece trimmed, empty pieces dropped
ParseTopics(values) ==
    LET topicsRaw == Join(SubSeq(values, 6, Len(values)), ",")
        pieces    == Split(StripQuotes(topicsRaw), ",")
    IN  NonEmptyOnly([i \in 1..Len(pieces) |-> Trim(pieces[i])])

\* one iteration of the loop of parseCSV: the records (none or one) that
\* the line lines[i] adds to problems
ParseLine(raw) ==
    LET line       == Trim(raw)
        values     == Split(line, ",")
        difficulty == MatchDifficulty(RawDiff(values[1]))
    IN  IF line = <<>> THEN <<>>
        ELSE IF ~HasEnoughColumns(values) THEN <<>>
        ELSE IF difficulty = <<>> THEN <<>>
        ELSE << [ difficulty     |-> difficulty,
                  title          |-> StripQuotes(values[2]),
                  frequency      |-> parseFloat(values[3]),
                  acceptanceRate |-> NormalizeAcceptance(parseFloat(values[4])),
                  link           |-> StripQuotes(values[5]),
                  topics         |-> ParseTopics(values) ] >>

\* the loop with break in place of continue: a line that is dropped ends
\* the parse
RECURSIVE ParseLinesAborting(_)
ParseLinesAborting(lines) ==
    IF lines = <<>> THEN <<>>
    ELSE IF ParseLine(Head(lines)) = <<>> THEN <<>>
    ELSE ParseLine(Head(lines)) \o ParseLinesAborting(Tail(lines))

\* the loop of parseCSV over the lines after the header
RECURSIVE ParseLines(_)
ParseLines(lines) ==
    IF lines = <<>> THEN <<>>
    ELSE ParseLine(Head(lines)) \o ParseLines(Tail(lines))

parseCSV(text) == ParseLines(Tail(Split(Trim(text), "\n")))

-----------------------------------------------------------------------------
(* The view derivation of ProblemTable *)

SortKeys == {"difficulty", "frequency", "acceptanceRate"}

SortDirections == {"asc", "desc"}

difficultyRank(d) ==
    IF d = Easy THEN Num(1 * One)
    ELSE IF d = Medium THEN Num(2 * One)
    ELSE Num(3 * One)

\* valA / valB of the comparator: the numeric projection the key selects
Projection(p, key) ==
    IF key = "difficulty" THEN difficultyRank(p.difficulty)
    ELSE IF key = "frequency" THEN p.frequency
    ELSE p.acceptanceRate

\* the comparator with the direction ignored: always ascending
ComparatorAscendingOnly(a, b, key, dir) ==
    LET valA == Projection(a, key)
        valB == Projection(b, key)
    IN  IF StrictEq(valA, valB) THEN 0
        ELSE IF Less(valA, valB) THEN -1 ELSE 1

\* the comparator handed to Array.prototype.sort
Comparator(a, b, key, dir) ==
    LET valA    == Projection(a, key)
        valB    == Projection(b, key)
        compare == IF Less(valA, valB) THEN -1 ELSE 1
    IN  IF StrictEq(valA, valB) THEN 0
        ELSE IF dir = "asc" THEN compare ELSE 0 - compare

\* the filter predicate with every in place of some: a record must carry
\* all the selected tags
HasEverySelectedTopic(p, tags) ==
    \A t \in tags : \E i \in 1..Len(p.topics) : p.topics[i] = t

\* p.topics.some(t => selectedTags.has(t))
HasSelectedTopic(p, tags) == \E i \in 1..Len(p.topics) : p.topics[i] \in tags

\* the filter step: applied only when a tag is selected
FilterByTags(recs, tags) ==
    IF tags = {} THEN recs
    ELSE SelectSeq(recs, LAMBDA p : HasSelectedTopic(p, tags))

\* whether the comparator is a consistent comparator for the elements of s,
\* as Array.prototype.sort requires: reflexive and symmetric on equality,
\* transitive on equal, less and greater
ConsistentComparator(s, key, dir) ==
    LET C(i, j) == Comparator(s[i], s[j], key, dir)
        I       == 1..Len(s)
    IN  /\ \A i \in I : C(i, i) = 0
        /\ \A i, j \in I : C(i, j) = 0 => C(j, i) = 0
        /\ \A i, j, k \in I :
              /\ (C(i, j) = 0 /\ C(j, k) = 0) => C(i, k) = 0
              /\ (C(i, j) < 0 /\ C(j, k) < 0) => C(i, k) < 0
              /\ (C(i, j) > 0 /\ C(j, k) > 0) => C(i, k) > 0

\* x put into the sorted sequence t, before the first element it compares
\* less than: x comes later in the input than every element of t
RECURSIVE InsertSorted(_, _, _, _)
InsertSorted(x, t, key, dir) ==
    IF t = <<>> THEN <<x>>
    ELSE IF Comparator(x, Head(t), key, dir) < 0 THEN <<x>> \o t
    ELSE <<Head(t)>> \o InsertSorted(x, Tail(t), key, dir)

\* the stable sort of s by the comparator
RECURSIVE StableSort(_, _, _)
StableSort(s, key, dir) ==
    IF s = <<>> THEN <<>>
    ELSE InsertSorted(s[Len(s)], StableSort(SubSeq(s, 1, Len(s) - 1), key, dir), key, dir)

\* every order of the elements of s
Orders(s) == { [i \in 1..Len(s) |-> s[p[i]]] : p \in Permutations(1..Len(s)) }

\* Array.prototype.sort: the stable sort when the comparator is consistent;
\* otherwise the order is implementation-defined, any order of the elements
ArraySort(s, key, dir) ==
    IF ConsistentComparator(s, key, dir) THEN {StableSort(s, key, dir)}
    ELSE Orders(s)

\* the results the useMemo callback can return
sortedAndFilteredProblems(recs, tags, key, dir) ==
    ArraySort(FilterByTags(recs, tags), key, dir)

\* the tag buttons of a fixed catalogue of tags, whatever the records carry
allTagsOfCatalogue == {<<"X">>, <<"Y">>, <<"W">>}

\* the tag buttons: the topics of all the records
allTags ==
    UNION { { problems[i].topics[j] : j \in 1..Len(problems[i].topics) } :
            i \in 1..Len(problems) }

-----------------------------------------------------------------------------
(* Source texts *)

\* Difficulty,Title,Frequency,Acceptance,Link,Topics
Header ==
    <<"D", "i", "f", "f", "i", "c", "u", "l", "t", "y", ",", "T", "i", "t", "l", "e",
      ",", "F", "r", "e", "q", "u", "e", "n", "c", "y", ",", "A", "c", "c", "e", "p",
      "t", "a", "n", "c", "e", ",", "L", "i", "n", "k", ",", "T", "o", "p", "i", "c",
      "s">>

\* Easy,"T1",5,0.537,"a","X, Y"
Row1 ==
    <<"E", "a", "s", "y", ",", "\"", "T", "1", "\"", ",", "5", ",", "0", ".", "5", "3",
      "7", ",", "\"", "a", "\"", ",", "\"", "X", ",", " ", "Y", "\"">>

\* MEDIUM,T2,2.5,53.7,b,Y
Row2 ==
    <<"M", "E", "D", "I", "U", "M", ",", "T", "2", ",", "2", ".", "5", ",", "5", "3",
      ".", "7", ",", "b", ",", "Y">>

\*  hard ,T3,5,1,c
Row3 ==
    <<" ", "h", "a", "r", "d", " ", ",", "T", "3", ",", "5", ",", "1", ",", "c">>

\* medium,The Fourth Title,x,0.5,d,X<CR>
Row4 ==
    <<"m", "e", "d", "i", "u", "m", ",", "T", "h", "e", " ", "F", "o", "u", "r", "t",
      "h", " ", "T", "i", "t", "l", "e", ",", "x", ",", "0", ".", "5", ",", "d", ",",
      "X", "\r">>

\* Easy,T5,7
Row5 ==
    <<"E", "a", "s", "y", ",", "T", "5", ",", "7">>

\* Extreme,T6,1,2,e,X
Row6 ==
    <<"E", "x", "t", "r", "e", "m", "e", ",", "T", "6", ",", "1", ",", "2", ",", "e",
      ",", "X">>

\* (2 spaces)
Row7 ==
    <<" ", " ">>

\* <TAB>hArD,T9,.5,abc,f,"Z"
Row8 ==
    <<"\t", "h", "A", "r", "D", ",", "T", "9", ",", ".", "5", ",", "a", "b", "c", ",",
      "f", ",", "\"", "Z", "\"">>

\* Easy,T0,-2,-0.5,g, X ,,Y 
Row9 ==
    <<"E", "a", "s", "y", ",", "T", "0", ",", "-", "2", ",", "-", "0", ".", "5", ",",
      "g", ",", " ", "X", " ", ",", ",", "Y", " ">>

\* ,T7,1,2,h
Row10 ==
    <<",", "T", "7", ",", "1", ",", "2", ",", "h">>

\* Medium,T8,5,1.5,a,X,Z
Row11 ==
    <<"M", "e", "d", "i", "u", "m", ",", "T", "8", ",", "5", ",", "1", ".", "5", ",",
      "a", ",", "X", ",", "Z">>

\* eAsY,T6,12,0.05,e,
Row12 ==
    <<"e", "A", "s", "Y", ",", "T", "6", ",", "1", "2", ",", "0", ".", "0", "5", ",",
      "e", ",">>

\* Hard,T4,3,40,i,"Math, Brainteaser"
Row13 ==
    <<"H", "a", "r", "d", ",", "T", "4", ",", "3", ",", "4", "0", ",", "i", ",",
      "\"", "M", "a", "t", "h", ",", " ", "B", "r", "a", "i", "n", "t", "e", "a",
      "s", "e", "r", "\"">>

\* Hard,T4,1,2,j,"X","Y"
Row14 ==
    <<"H", "a", "r", "d", ",", "T", "4", ",", "1", ",", "2", ",", "j", ",", "\"",
      "X", "\"", ",", "\"", "Y", "\"">>

\* the data lines the parser specification draws from: well-formed lines in
\* every casing of the difficulty, quoted and unquoted fields, fractions and
\* percentages, topics quoted as a list and one by one, and lines that are
\* blank, short, or of unknown difficulty
ParseRows ==
    {<<>>, Row1, Row2, Row3, Row4, Row5, Row6, Row7, Row8, Row9, Row10, Row11, Row12,
     Row13, Row14}

\* the data lines the application specification draws from
AppRows == {Row1, Row2, Row3, Row4, Row5}

SeqsUpTo(S, n) == UNION { [1..k -> S] : k \in 0..n }

\* the text made of the header and the data lines, one per line
RECURSIVE TextOf(_)
TextOf(rows) ==
    IF rows = <<>> THEN Header
    ELSE TextOf(SubSeq(rows, 1, Len(rows) - 1)) \o <<"\n">> \o rows[Len(rows)]

-----------------------------------------------------------------------------
(* The solved list *)

\* a value read from the store: an array of links, or something that is not
\* an array
ArrayOf(items) == [isArray |-> TRUE, items |-> items]

NotAnArray == [isArray |-> FALSE, items |-> <<>>]

\* Array.isArray(solvedLinksArray) ? solvedLinksArray : []
SafeArray(stored) == IF stored.isArray THEN stored.items ELSE <<>>

\* new Set(array), in insertion order: the first occurrence of each element
RECURSIVE SetFrom(_)
SetFrom(arr) ==
    IF arr = <<>> THEN <<>>
    ELSE LET init == SetFrom(SubSeq(arr, 1, Len(arr) - 1))
             x    == arr[Len(arr)]
         IN  IF \E i \in 1..Len(init) : init[i] = x THEN init ELSE Append(init, x)

SetHas(set, x) == \E i \in 1..Len(set) : set[i] = x

SetDelete(set, x) == SelectSeq(set, LAMBDA y : y # x)

SetAdd(set, x) == IF SetHas(set, x) THEN set ELSE Append(set, x)

\* handleToggleSolved with the delete branch left out: a link is only added
handleToggleSolvedAddOnly(stored, link) ==
    ArrayOf(SetAdd(SetFrom(SafeArray(stored)), link))

\* the array handleToggleSolved hands to setSolvedLinksArray
handleToggleSolved(stored, link) ==
    LET newSolvedLinks == SetFrom(SafeArray(stored))
    IN  IF SetHas(newSolvedLinks, link)
        THEN ArrayOf(SetDelete(newSolvedLinks, link))
        ELSE ArrayOf(SetAdd(newSolvedLinks, link))

\* solvedProblemLinks: the members of the solved set
solvedProblemLinks ==
    { SafeArray(solvedLinksArray)[i] : i \in 1..Len(SafeArray(solvedLinksArray)) }

\* the links a stored list found at start-up may hold: a link of the record
\* set and a link that no record carries
StoredLinks == {<<"a">>, <<"z">>}

StoredValues == {NotAnArray} \cup { ArrayOf(a) : a \in SeqsUpTo(StoredLinks, MaxStored) }

\* the counters of the progress panel
solvedCount == Cardinality(solvedProblemLinks)

totalCount == Len(problems)

\* (solvedCount / totalCount) * 100, or 0 when there is no record
progress ==
    IF totalCount > 0 THEN Num(((solvedCount * One) \div totalCount) * 100) ELSE Num(0)

-----------------------------------------------------------------------------
(* The sort and filter state of ProblemTable *)

\* handleSort with the reset of the direction left out: a new key keeps
\* the direction of the old one
SortStateKeepingDirection(key, curKey, curDir) ==
    IF curKey = key
    THEN <<curKey, IF curDir = "asc" THEN "desc" ELSE "asc">>
    ELSE <<key, curDir>>

\* <<sortKey, sortDirection>> after handleSort(key)
SortStateAfter(key, curKey, curDir) ==
    IF curKey = key
    THEN <<curKey, IF curDir = "asc" THEN "desc" ELSE "asc">>
    ELSE <<key, IF key = "difficulty" THEN "asc" ELSE "desc">>

\* selectedTags after toggleTag(tag)
TagsAfterToggle(tags, tag) == IF tag \in tags THEN tags \ {tag} ELSE tags \cup {tag}

\* the table is rendered only when the record set is not empty
TableMounted == loaded /\ problems # <<>>

\* the rows on screen with, in addition, a row of a record that the record
\* set does not hold
RenderedLinksWithStaleRow == { view[i].link : i \in 1..Len(view) } \cup {<<"z">>}

\* the rows on screen carry the links of the records of the view
RenderedLinks == { view[i].link : i \in 1..Len(view) }

\* the [NO_MATCHING_DATA] panel is rendered when the view is empty
NoMatchingData == TableMounted /\ Len(view) = 0

-----------------------------------------------------------------------------
(* The application *)

Init ==
    /\ csv \in { TextOf(rows) : rows \in SeqsUpTo(AppRows, MaxAppLines) }
    /\ loaded = FALSE
    /\ problems = <<>>
    /\ solvedLinksArray \in StoredValues
    /\ sortKey = "frequency"
    /\ sortDirection = "desc"
    /\ selectedTags = {}
    /\ view = <<>>

\* the mount effect: the source text is parsed and becomes the record set
LoadCSV ==
    /\ ~loaded
    /\ loaded' = TRUE
    /\ problems' = parseCSV(csv)
    /\ view' \in sortedAndFilteredProblems(problems', selectedTags, sortKey, sortDirection)
    /\ UNCHANGED <<csv, solvedLinksArray, sortKey, sortDirection, selectedTags>>

\* a click on a column header
HandleSort(key) ==
    /\ TableMounted
    /\ sortKey' = SortStateAfter(key, sortKey, sortDirection)[1]
    /\ sortDirection' = SortStateAfter(key, sortKey, sortDirection)[2]
    /\ view' \in sortedAndFilteredProblems(problems, selectedTags, sortKey', sortDirection')
    /\ UNCHANGED <<csv, loaded, problems, solvedLinksArray, selectedTags>>

\* a click on a tag button
ToggleTag(tag) ==
    /\ TableMounted
    /\ selectedTags' = TagsAfterToggle(selectedTags, tag)
    /\ view' \in sortedAndFilteredProblems(problems, selectedTags', sortKey, sortDirection)
    /\ UNCHANGED <<csv, loaded, problems, solvedLinksArray, sortKey, sortDirection>>

\* a click on Clear All (shown while a tag is selected) or on Reset Filters
\* (shown while the view is empty)
ClearFilters ==
    /\ TableMounted
    /\ selectedTags # {} \/ view = <<>>
    /\ selectedTags' = {}
    /\ view' \in sortedAndFilteredProblems(problems, selectedTags', sortKey, sortDirection)
    /\ UNCHANGED <<csv, loaded, problems, solvedLinksArray, sortKey, sortDirection>>

\* a toggle that also resets the tag filter and re-derives the view
ToggleSolvedResettingFilter(link) ==
    /\ TableMounted
    /\ solvedLinksArray' = handleToggleSolved(solvedLinksArray, link)
    /\ selectedTags' = {}
    /\ view' \in sortedAndFilteredProblems(problems, selectedTags', sortKey, sortDirection)
    /\ UNCHANGED <<csv, loaded, problems, sortKey, sortDirection>>

\* a click on the check box of a row: the new list is stored; no input of the
\* memoised view changes, so the view is kept
ToggleSolved(link) ==
    /\ TableMounted
    /\ solvedLinksArray' = handleToggleSolved(solvedLinksArray, link)
    /\ UNCHANGED <<csv, loaded, problems, sortKey, sortDirection, selectedTags, view>>

Next ==
    \/ LoadCSV
    \/ \E key \in SortKeys : HandleSort(key)
    \/ \E tag \in allTags : ToggleTag(tag)
    \/ ClearFilters
    \/ \E link \in RenderedLinks : ToggleSolved(link)

Spec == Init /\ [][Next]_vars

-----------------------------------------------------------------------------
(* The application started with no solved list in the store, or an empty   *)
(* one: useLocalStorage then yields its initial value, the empty array.    *)
(* The source text may hold two lines of one link and a line whose         *)
(* frequency is not a number.                                              *)

FreshRows == {Row1, Row2, Row3, Row4, Row5, Row11}

InitFresh ==
    /\ csv \in { TextOf(rows) : rows \in SeqsUpTo(FreshRows, MaxAppLines) }
    /\ loaded = FALSE
    /\ problems = <<>>
    /\ solvedLinksArray = ArrayOf(<<>>)
    /\ sortKey = "frequency"
    /\ sortDirection = "desc"
    /\ selectedTags = {}
    /\ view = <<>>

SpecFresh == InitFresh /\ [][Next]_vars

-----------------------------------------------------------------------------
(* The parser alone: any source text of the pool, parsed by the mount effect *)

InitParse ==
    /\ csv \in { TextOf(rows) \o trailing :
                   rows \in SeqsUpTo(ParseRows, MaxLines),
                   trailing \in {<<>>, <<"\n">>} }
    /\ loaded = FALSE
    /\ problems = <<>>
    /\ solvedLinksArray = ArrayOf(<<>>)
    /\ sortKey = "frequency"
    /\ sortDirection = "desc"
    /\ selectedTags = {}
    /\ view = <<>>

NextParse == LoadCSV

SpecParse == InitParse /\ [][NextParse]_vars

-----------------------------------------------------------------------------
(* The view derivation alone: any record set the parser produces from the  *)
(* well-formed lines, with the table mounted; the sort key, the direction  *)
(* and the tags are then set freely, also to tags that no record carries   *)

ViewRows == {Row1, Row2, Row3, Row4}

\* the tags X and Y, carried by records, and W, carried by none
ViewTags == {<<"X">>, <<"Y">>, <<"W">>}

InitView ==
    /\ csv \in { TextOf(rows) : rows \in SeqsUpTo(ViewRows, MaxRecs) }
    /\ loaded = TRUE
    /\ problems = parseCSV(csv)
    /\ solvedLinksArray = ArrayOf(<<>>)
    /\ sortKey = "frequency"
    /\ sortDirection = "desc"
    /\ selectedTags = {}
    /\ view \in sortedAndFilteredProblems(problems, selectedTags, sortKey, sortDirection)

NextView ==
    \/ \E key \in SortKeys : HandleSort(key)
    \/ \E tag \in ViewTags : ToggleTag(tag)
    \/ ClearFilters

SpecView == InitView /\ [][NextView]_vars

-----------------------------------------------------------------------------
(* Claims: the sort-key state machine and the solved list *)

DefaultDirection(key) == IF key = "difficulty" THEN "asc" ELSE "desc"

Flipped(dir) == IF dir = "asc" THEN "desc" ELSE "asc"

\* C1: every handleSort(key) step with key different from the active sort
\* key makes key the sort key and sets the direction to the default of key
\* (asc for difficulty, desc for frequency and acceptanceRate) whatever the
\* direction was; every handleSort(key) step with key the active sort key
\* keeps the key and flips the direction.  No other step changes the sort key
\* or the direction.
C1_HandleSortPolicy ==
    [][ /\ \A key \in SortKeys :
              HandleSort(key) =>
                  IF key # sortKey
                  THEN sortKey' = key /\ sortDirection' = DefaultDirection(key)
                  ELSE sortKey' = sortKey /\ sortDirection' = Flipped(sortDirection)
        /\ (\A key \in SortKeys : ~HandleSort(key)) =>
              UNCHANGED <<sortKey, sortDirection>> ]_vars

\* C1 witness: difficulty sorted descending, which takes a switch to the
\* difficulty key (default asc) followed by a flip
C1_Witness ==
    /\ sortKey = "difficulty"
    /\ sortDirection = "desc"
    /\ selectedTags # {}

Members(stored) == { SafeArray(stored)[i] : i \in 1..Len(SafeArray(stored)) }

\* C2: a step that toggles link l adds l to the solved set when it is absent
\* and removes it when it is present, and changes the membership of no other
\* link; toggling l once more from the state reached gives back exactly the
\* members the solved set had before the first toggle.
C2_ToggleRoundTrip ==
    [][ \A l \in RenderedLinks :
            ToggleSolved(l) =>
                /\ Members(solvedLinksArray') =
                       IF l \in Members(solvedLinksArray)
                       THEN Members(solvedLinksArray) \ {l}
                       ELSE Members(solvedLinksArray) \cup {l}
                /\ Members(handleToggleSolved(solvedLinksArray', l)) =
                       Members(solvedLinksArray) ]_vars

\* C2 witness: the solved list holds c then a, which takes the toggles of
\* two rows (no stored list holds c)
C2_Witness ==
    /\ solvedLinksArray.isArray
    /\ solvedLinksArray.items = << <<"c">>, <<"a">> >>

\* C8: a step that changes the solved list leaves the record set, the sort
\* key, the sort direction and the selected tags unchanged, and the view
\* after it is the view before it, which is still a derivation of the
\* unchanged inputs.
C8_ToggleKeepsView ==
    [][ solvedLinksArray' # solvedLinksArray =>
            /\ UNCHANGED <<problems, sortKey, sortDirection, selectedTags>>
            /\ view' = view
            /\ view' \in sortedAndFilteredProblems(problems', selectedTags',
                                                   sortKey', sortDirection') ]_vars

\* C8 witness: a link is solved while a tag filter and a sort other than the
\* initial one are active, and the view shows records
C8_Witness ==
    /\ <<"a">> \in Members(solvedLinksArray)
    /\ selectedTags # {}
    /\ sortKey = "acceptanceRate"
    /\ Len(view) = 2

-----------------------------------------------------------------------------
(* Claims: the view derivation *)

Count(seq, r) == Cardinality({ i \in 1..Len(seq) : seq[i] = r })

Range(seq) == { seq[i] : i \in 1..Len(seq) }

Reverse(seq) == [i \in 1..Len(seq) |-> seq[Len(seq) + 1 - i]]

\* C3: with tags selected the view holds exactly the records that carry at
\* least one selected tag (each as often as the record set holds it); with no
\* tag selected it holds every record; with only tags that no record carries
\* it is empty.
C3_ViewIsTagFilter ==
    LET Wanted(i) == selectedTags = {} \/ Range(problems[i].topics) \cap selectedTags # {}
    IN  /\ \A r \in Range(problems) \cup Range(view) :
              Count(view, r) =
                  Cardinality({ i \in 1..Len(problems) : problems[i] = r /\ Wanted(i) })
        /\ selectedTags = {} => Len(view) = Len(problems)
        /\ (selectedTags # {} /\ selectedTags \cap allTags = {}) => view = <<>>

\* C3 witness: X and Y are selected and the view shows a record that carries
\* X alone and a record that carries Y alone
C3_Witness ==
    /\ selectedTags = {<<"X">>, <<"Y">>}
    /\ \E i, j \in 1..Len(view) :
          /\ Range(view[i].topics) = {<<"X">>}
          /\ Range(view[j].topics) = {<<"Y">>}

\* whether a may stand before b in a view sorted by key in direction dir
InOrder(a, b, key, dir) ==
    IF dir = "asc"
    THEN LessEq(Projection(a, key), Projection(b, key))
    ELSE LessEq(Projection(b, key), Projection(a, key))

\* C4: the view lists the filtered records in non-decreasing (asc) or
\* non-increasing (desc) order of the projection of the sort key, and records
\* of equal projection stand in the order they have in the record set.
C4_SortedAndStable ==
    /\ \A i, j \in 1..Len(view) :
          i < j => InOrder(view[i], view[j], sortKey, sortDirection)
    /\ \E p \in [1..Len(view) -> 1..Len(problems)] :
          /\ \A i \in 1..Len(view) : view[i] = problems[p[i]]
          /\ \A i, j \in 1..Len(view) :
                (i < j /\ StrictEq(Projection(view[i], sortKey),
                                   Projection(view[j], sortKey))) => p[i] < p[j]

\* the statement of C4 for the record sets in which every projection of the
\* sort key is a number
C4_SortedAndStableOnNumbers ==
    (\A i \in 1..Len(problems) : ~Projection(problems[i], sortKey).nan)
        => C4_SortedAndStable

\* C6: for every two records of the record set, every sort key and both
\* directions, the results of the comparator for (a, b) and for (b, a) are
\* both 0 or have opposite signs.
C6_ComparatorTotalOrder ==
    \A i, j \in 1..Len(problems) : \A key \in SortKeys : \A dir \in SortDirections :
        LET x == Comparator(problems[i], problems[j], key, dir)
            y == Comparator(problems[j], problems[i], key, dir)
        IN  \/ x = 0 /\ y = 0
            \/ x < 0 /\ y > 0
            \/ x > 0 /\ y < 0

FrequencyViews(dir) == sortedAndFilteredProblems(problems, selectedTags, "frequency", dir)

Frequencies(seq) == [i \in 1..Len(seq) |-> seq[i].frequency]

\* the records the filter keeps
Kept == SelectSeq(problems, LAMBDA p :
            selectedTags = {} \/ Range(p.topics) \cap selectedTags # {})

-----------------------------------------------------------------------------
(* Claims: the parser *)

\* the lines of the source text after the header line
DataLines == Tail(Split(Trim(csv), "\n"))

\* the comma-separated fields of a line
Fields(l) == Split(Trim(l), ",")

CommaCount(l) == Cardinality({ i \in 1..Len(l) : l[i] = "," })

LowerEasy == <<"e", "a", "s", "y">>

LowerMedium == <<"m", "e", "d", "i", "u", "m">>

LowerHard == <<"h", "a", "r", "d">>

\* whether a difficulty field names a difficulty, letter case and surrounding
\* white space ignored
Recognised(f) == toLowerCase(Trim(f)) \in {LowerEasy, LowerMedium, LowerHard}

\* the difficulty a recognised field names
NamedDifficulty(f) ==
    IF toLowerCase(Trim(f)) = LowerEasy THEN Easy
    ELSE IF toLowerCase(Trim(f)) = LowerMedium THEN Medium
    ELSE Hard

\* a line that is to give a record: not blank, five fields or more, a
\* recognised difficulty
IsValidLine(l) ==
    /\ Trim(l) # <<>>
    /\ CommaCount(Trim(l)) >= 4
    /\ Recognised(Fields(l)[1])

ValidLines == SelectSeq(DataLines, IsValidLine)

\* C5: once the source text is parsed, the record set holds one record for
\* each valid line and no other, in the order of the lines: the k-th record
\* has the title and the link of the k-th valid line, whatever lines were
\* dropped before it.
C5_OneRecordPerValidLine ==
    loaded =>
        /\ Len(problems) = Len(ValidLines)
        /\ \A k \in 1..Len(ValidLines) :
              /\ k <= Len(problems)
              /\ problems[k].title = StripQuotes(Fields(ValidLines[k])[2])
              /\ problems[k].link = StripQuotes(Fields(ValidLines[k])[5])

\* C5 witness: a line of three fields is followed by a valid line, and the
\* record set holds the record of that line alone
C5_Witness ==
    /\ loaded
    /\ Len(DataLines) = 2
    /\ Trim(DataLines[1]) # <<>>
    /\ CommaCount(Trim(DataLines[1])) = 2
    /\ IsValidLine(DataLines[2])
    /\ Len(problems) = 1
    /\ problems[1].link = StripQuotes(Fields(DataLines[2])[5])

Decimal(whole, tenths) == Num(whole * One + tenths * (One \div 10))

\* C10: the acceptance rate of the record of a valid line is 100 times the
\* parsed value v of the fourth field when v <= 1 and v itself when v > 1
\* (0.537 gives 53.7, 53.7 gives 53.7, 1 gives 100), and its frequency is the
\* parsed value of the third field (5 gives 5, .5 gives 0.5).
C10_AcceptanceRateScaling ==
    loaded =>
        /\ Len(problems) = Len(ValidLines)
        /\ \A k \in 1..Len(ValidLines) :
              LET rate == Fields(ValidLines[k])[4]
                  freq == Fields(ValidLines[k])[3]
                  v    == parseFloat(rate)
                  r    == problems[k]
              IN  /\ k <= Len(problems)
                  /\ (~v.nan /\ v.v <= One) => r.acceptanceRate = Num(100 * v.v)
                  /\ (~v.nan /\ v.v > One) => r.acceptanceRate = v
                  /\ r.frequency = parseFloat(freq)
                  /\ rate = <<"0", ".", "5", "3", "7">> => r.acceptanceRate = Decimal(53, 7)
                  /\ rate = <<"5", "3", ".", "7">> => r.acceptanceRate = Decimal(53, 7)
                  /\ rate = <<"1">> => r.acceptanceRate = Decimal(100, 0)
                  /\ freq = <<"5">> => r.frequency = Decimal(5, 0)
                  /\ freq = <<".", "5">> => r.frequency = Decimal(0, 5)

\* C10 witness: the record set holds a record of rate 100 parsed from a field
\* of 1 and a record of rate 53.7 parsed from a field of 0.537
C10_Witness ==
    /\ loaded
    /\ Len(problems) = 2
    /\ Len(ValidLines) = 2
    /\ Fields(ValidLines[1])[4] = <<"1">>
    /\ problems[1].acceptanceRate = Decimal(100, 0)
    /\ Fields(ValidLines[2])[4] = <<"0", ".", "5", "3", "7">>
    /\ problems[2].acceptanceRate = Decimal(53, 7)

\* the text of a line after its fifth comma, empty when the line has four
TopicsText(l) ==
    LET t == Trim(l)
        P == { i \in 1..Len(t) : t[i] = "," }
    IN  IF Cardinality(P) < 5 THEN <<>>
        ELSE SubSeq(t, (CHOOSE i \in P : Cardinality({ j \in P : j < i }) = 4) + 1,
                    Len(t))

\* a text without the quote it starts with and the quote it ends with
Unquoted(s) ==
    LET from == IF Len(s) >= 1 /\ s[1] = Quote THEN 2 ELSE 1
        to   == IF Len(s) >= from /\ s[Len(s)] = Quote THEN Len(s) - 1 ELSE Len(s)
    IN  SubSeq(s, from, to)

\* the pieces between the commas of the unquoted topics text that are not
\* all white space, each without its surrounding white space, in order
ExpectedTopics(l) ==
    LET pieces == SelectSeq(Split(Unquoted(TopicsText(l)), ","),
                            LAMBDA s : \E i \in 1..Len(s) : s[i] \notin WhiteSpace)
    IN  [i \in 1..Len(pieces) |-> Trim(pieces[i])]

Math == <<"M", "a", "t", "h">>

Brainteaser == <<"B", "r", "a", "i", "n", "t", "e", "a", "s", "e", "r">>

\* "Math, Brainteaser"
QuotedMathBrainteaser == <<Quote>> \o Math \o <<",", " ">> \o Brainteaser \o <<Quote>>

\* C11: the topics of the record of every valid line are the pieces of the
\* text after the fifth comma, outer quotes stripped, split on commas, each
\* piece trimmed and the empty ones dropped, in order of the line; a topics
\* text of "Math, Brainteaser" gives the topics Math and Brainteaser; every
\* topic is non-empty, holds no comma and neither starts nor ends with white
\* space; a line of exactly five fields gives no topics.
C11_TopicsOfLine ==
    loaded =>
        /\ Len(problems) = Len(ValidLines)
        /\ \A k \in 1..Len(ValidLines) :
              /\ k <= Len(problems)
              /\ problems[k].topics = ExpectedTopics(ValidLines[k])
              /\ \A i \in 1..Len(problems[k].topics) :
                    LET topic == problems[k].topics[i]
                    IN  /\ topic # <<>>
                        /\ topic[1] \notin WhiteSpace
                        /\ topic[Len(topic)] \notin WhiteSpace
                        /\ CommaCount(topic) = 0
              /\ TopicsText(ValidLines[k]) = QuotedMathBrainteaser
                    => problems[k].topics = <<Math, Brainteaser>>
              /\ CommaCount(Trim(ValidLines[k])) = 4 => problems[k].topics = <<>>

\* C11 witness: the record of a line whose topics text is "Math, Brainteaser"
\* holds the two topics, and the record of a line of five fields holds none
C11_Witness ==
    /\ loaded
    /\ Len(ValidLines) = 2
    /\ Len(problems) = 2
    /\ TopicsText(ValidLines[1]) = QuotedMathBrainteaser
    /\ problems[1].topics = <<Math, Brainteaser>>
    /\ CommaCount(Trim(ValidLines[2])) = 4
    /\ problems[2].topics = <<>>

-----------------------------------------------------------------------------
(* Claims: the tag filter of the mounted table *)

\* the tags carried by at least one record of the record set
CarriedTags == UNION { Range(problems[i].topics) : i \in 1..Len(problems) }

\* C12: while the table is mounted (the record set is not empty), after any
\* clicks on tag buttons, column headers, Clear All and Reset Filters, every
\* selected tag is carried by at least one record, the view holds at least
\* one record, and the [NO_MATCHING_DATA] panel is not rendered.
C12_SelectedTagsCarried ==
    TableMounted =>
        /\ \A t \in selectedTags :
              \E i \in 1..Len(problems) : t \in Range(problems[i].topics)
        /\ selectedTags \subseteq CarriedTags
        /\ view # <<>>
        /\ ~NoMatchingData

\* C12 witness: with the sort changed and a tag selected, the filter hides
\* a record of the record set and the view still holds one
C12_Witness ==
    /\ TableMounted
    /\ sortKey # "frequency"
    /\ selectedTags # {}
    /\ Len(view) < Len(problems)
    /\ Len(view) >= 1

-----------------------------------------------------------------------------
(* Claims: the solved set of an application started with an empty store *)

\* the links of the records of the record set
RecordLinks == { problems[i].link : i \in 1..Len(problems) }

\* C13: started with no stored solved list or an empty one, after any
\* solved toggles from rendered rows, sorts and tag-filter actions, every
\* solved link is the link of a record, solvedCount is at most totalCount,
\* and the progress is a number from 0 to 100.
C13_SolvedWithinRecords ==
    /\ solvedProblemLinks \subseteq RecordLinks
    /\ solvedCount <= totalCount
    /\ ~progress.nan
    /\ progress.v >= 0
    /\ progress.v <= 100 * One

\* C13 witness: with a tag selected and the sort changed, every record of a
\* record set of two is solved and the progress is 100
C13_Witness ==
    /\ TableMounted
    /\ selectedTags # {}
    /\ sortKey # "frequency"
    /\ totalCount = 2
    /\ solvedCount = 2
    /\ progress = Num(100 * One)

=============================================================================
